---- MODULE Spec2Model ----
(***************************************************************************)
(* Model of the vitamin reminder bot (src/vitamin_bot.py, src/config.py).  *)
(*                                                                         *)
(* The bot is one asyncio process.  A coroutine runs without interruption  *)
(* from one `await` on the network to the next, so every action below is   *)
(* one such uninterrupted segment of a handler or of a periodic job.       *)
(* The SQLite tables are the variables vitamins, vitamin_logs and          *)
(* active_reminders; the module-level dict user_states is split into the   *)
(* wizard part (user_states) and the part under the key "settings".        *)
(*                                                                         *)
(* Time: `now` is the wall clock in America/Chicago, counted in ticks of   *)
(* one clock minute.  A day has DayLen ticks.                              *)
(***************************************************************************)
EXTENDS Integers, Sequences, FiniteSets, TLC

\* ------------------------------------------------------------------ bounds
DayLen == 2
MaxTime == 2
MaxVitamins == 2
MaxLogs == 2
MaxReminderRows == 2
MaxJobs == 1
MaxEvents == 7
\* REPEAT_REMINDER_INTERVAL of config.py, scaled to ticks.
REPEAT_REMINDER_INTERVAL == 1

\* ------------------------------------------------------- config.py values
\* ALLOWED_USERS = [123456789, 987654321]: the two ids, in list order.
ALLOWED_USERS == <<1, 2>>
\* A Telegram user that is not in ALLOWED_USERS.
Stranger == Len(ALLOWED_USERS) + 1
Users == {ALLOWED_USERS[i] : i \in 1..Len(ALLOWED_USERS)} \cup {Stranger}
MAX_REMINDER_ATTEMPTS == 3
ENABLE_REPEAT_REMINDERS == TRUE
\* The delays offered by the postpone buttons, in ticks.
PostponeDelays == {1, 2}

VARIABLES
    now,               \* wall clock, in ticks
    vitamins,          \* table vitamins: sequence of rows, id = position
    vitamin_logs,      \* table vitamin_logs: sequence of rows
    active_reminders,  \* table active_reminders: set of rows
    reminder_seq,      \* sqlite_sequence of active_reminders (AUTOINCREMENT)
    user_states,       \* wizard part of user_states: user -> state
    settings,          \* user_states["settings"]: user -> "unset", "on" or "off"
    jobs,              \* one-shot jobs queued by run_once: sequence of job data
    ev,                \* the send_vitamin_reminder coroutine (pc "send": the
                       \* first notification for ev.rows[ev.idx] is being
                       \* sent); ev.date is history: the date of the clock
                       \* reading of line 524, which the code does not keep
    esc,               \* the send_repeat_reminders coroutine (pc "send": a
                       \* repeat notification with esc.text is being sent)
    job_result,        \* how the send_repeat_reminders job ended in the last
                       \* step ("returned", "TypeError"), or
                       \* "OperationalError" when a periodic job ended with
                       \* the sqlite3 exception of a SELECT, else "none"
    created,           \* history: the reminder rows ever inserted, as
                       \* (vitamin_id, user_id, time of the insert)
    fired,             \* the job data of the postponed reminder that
                       \* send_postponed_reminder sent in the last step, as
                       \* a sequence of length 1, else the empty sequence
    delivery_error,    \* which job caught and logged an exception of
                       \* send_message in the last step: "first" (the
                       \* Evaluator), "repeat" (the Escalation Engine), else
                       \* "none"
    issued,            \* history: for each reminder row id, the number of
                       \* repeat notifications handed to send_message
    denied,            \* the user the last step answered with the "no
                       \* access" text, else 0
    not_found,         \* the user whose postpone the last step answered
                       \* with the "item not found" text, else 0
    events             \* number of messages and button presses handled

vars == <<now, vitamins, vitamin_logs, active_reminders, reminder_seq,
          user_states, settings, jobs, ev, esc, job_result, created, fired,
          delivery_error, issued, denied, not_found, events>>

\* ------------------------------------------------------------ clock reads
\* datetime.now(chicago_tz).date()
Today(t) == t \div DayLen
\* minute of the day of datetime.now(chicago_tz).time()
MinuteOfDay(t) == t % DayLen

\* ---------------------------------------------------------------- texts
\* A message text.  kind "button" is one of the four menu captions, kind
\* "time" is a text that strptime("%H:%M") accepts: the minute it denotes
\* and whether it is written zero-padded ("09:00") or not ("9:00"); kind
\* "word" is any other text.
Text(kind, v, pad) == [kind |-> kind, v |-> v, pad |-> pad]
BtnVitamins == Text("button", 1, FALSE)
BtnAdd      == Text("button", 2, FALSE)
BtnStats    == Text("button", 3, FALSE)
BtnSettings == Text("button", 4, FALSE)
Word        == Text("word", 0, FALSE)
TimeTexts   == {Text("time", m, TRUE) : m \in 0..(DayLen - 1)}
               \cup {Text("time", 0, FALSE)}
Texts       == {BtnVitamins, BtnAdd, BtnStats, BtnSettings, Word} \cup TimeTexts
\* The texts that do not touch the settings.
CoreTexts   == Texts \ {BtnSettings}

\* datetime.strptime(text, "%H:%M"): the minute, or -1 for ValueError.
\* %H and %M accept one or two digits, so unpadded texts parse too.
strptime(text) == IF text.kind = "time" THEN text.v ELSE -1
\* current_time.strftime("%H:%M"): always zero-padded.
strftime(t) == Text("time", MinuteOfDay(t), TRUE)

\* ------------------------------------------------------- VitaminDatabase
\* add_vitamin: INSERT INTO vitamins; the id is the AUTOINCREMENT key.
add_vitamin(user_id, name, reminder_time) ==
    Append(vitamins, [id |-> Len(vitamins) + 1, user_id |-> user_id,
                      name |-> name, reminder_time |-> reminder_time,
                      is_active |-> TRUE])

\* get_user_vitamins: the active rows of user_id, in id order.
get_user_vitamins(user_id) ==
    SelectSeq(vitamins, LAMBDA v : v.user_id = user_id /\ v.is_active)

\* Variant of log_vitamin_intake that inserts the log row and leaves the
\* reminder row in place.
log_vitamin_intake_keep_row(vitamin_id, user_id, status) ==
    [logs |-> Append(vitamin_logs, [vitamin_id |-> vitamin_id,
                                    user_id |-> user_id, status |-> status]),
     reminders |-> active_reminders,
     result |-> TRUE]

\* Variant of log_vitamin_intake whose DELETE has no user_id condition.
log_vitamin_intake_any_owner(vitamin_id, user_id, status) ==
    [logs |-> Append(vitamin_logs, [vitamin_id |-> vitamin_id,
                                    user_id |-> user_id, status |-> status]),
     reminders |-> IF status = "taken"
                   THEN {r \in active_reminders :
                           ~(/\ r.vitamin_id = vitamin_id
                             /\ r.reminder_date = Today(now))}
                   ELSE active_reminders,
     result |-> TRUE]

\* log_vitamin_intake: one transaction that inserts the log row and, for
\* status "taken", deletes the reminder row of (vitamin_id, user_id, today).
log_vitamin_intake(vitamin_id, user_id, status) ==
    [logs |-> Append(vitamin_logs, [vitamin_id |-> vitamin_id,
                                    user_id |-> user_id, status |-> status]),
     reminders |-> IF status = "taken"
                   THEN {r \in active_reminders :
                           ~(/\ r.vitamin_id = vitamin_id
                             /\ r.user_id = user_id
                             /\ r.reminder_date = Today(now))}
                   ELSE active_reminders,
     result |-> TRUE]

\* Variant of add_active_reminder without the SELECT: it always inserts.
add_active_reminder_no_select(vitamin_id, user_id) ==
    [reminders |-> active_reminders \cup
         {[id |-> reminder_seq + 1, vitamin_id |-> vitamin_id,
           user_id |-> user_id, reminder_date |-> Today(now),
           last_reminder |-> now, attempts |-> 0]},
     seq |-> reminder_seq + 1,
     result |-> TRUE]

\* Variant of add_active_reminder whose INSERT starts the row at one
\* attempt.
add_active_reminder_one_attempt(vitamin_id, user_id) ==
    LET today == Today(now)
        found == \E r \in active_reminders :
                    /\ r.vitamin_id = vitamin_id
                    /\ r.user_id = user_id
                    /\ r.reminder_date = today
    IN  IF ~found
        THEN [reminders |-> active_reminders \cup
                  {[id |-> reminder_seq + 1, vitamin_id |-> vitamin_id,
                    user_id |-> user_id, reminder_date |-> today,
                    last_reminder |-> now, attempts |-> 1]},
              seq |-> reminder_seq + 1,
              result |-> TRUE]
        ELSE [reminders |-> active_reminders, seq |-> reminder_seq,
              result |-> TRUE]

\* add_active_reminder: SELECT the row of (vitamin_id, user_id, today) and
\* INSERT one (attempts defaults to 0) if there is none.  Returns True on
\* both paths.
add_active_reminder(vitamin_id, user_id) ==
    LET today == Today(now)
        found == \E r \in active_reminders :
                    /\ r.vitamin_id = vitamin_id
                    /\ r.user_id = user_id
                    /\ r.reminder_date = today
    IN  IF ~found
        THEN [reminders |-> active_reminders \cup
                  {[id |-> reminder_seq + 1, vitamin_id |-> vitamin_id,
                    user_id |-> user_id, reminder_date |-> today,
                    last_reminder |-> now, attempts |-> 0]},
              seq |-> reminder_seq + 1,
              result |-> TRUE]
        ELSE [reminders |-> active_reminders, seq |-> reminder_seq,
              result |-> TRUE]

\* Variant of the read path without the TIMESTAMP converter: last_reminder
\* comes back as the stored ISO text.
convert_datetime_text(s) == [type |-> "str", val |-> s]

\* convert_datetime, registered for the declared type TIMESTAMP and applied
\* by PARSE_DECLTYPES to every last_reminder that is read: the stored ISO
\* text comes back as a datetime object.
convert_datetime(s) == [type |-> "datetime", val |-> s]

\* The rows of a set of reminder rows, in id order.
RECURSIVE ById(_)
ById(S) ==
    IF S = {} THEN <<>>
    ELSE LET r == CHOOSE x \in S : \A y \in S : x.id <= y.id
         IN  <<r>> \o ById(S \ {r})

\* Variant of get_active_reminders whose WHERE has no reminder_date
\* condition: the owner's rows of every date.
get_active_reminders_all_dates(user_id) ==
    LET rows == {r \in active_reminders :
                   /\ r.user_id = user_id
                   /\ r.vitamin_id \in 1..Len(vitamins)}
        sorted == ById(rows)
    IN  [i \in 1..Len(sorted) |->
            [id |-> sorted[i].id, vitamin_id |-> sorted[i].vitamin_id,
             attempts |-> sorted[i].attempts,
             last_reminder |-> convert_datetime(sorted[i].last_reminder)]]

\* get_active_reminders: today's rows of user_id joined with vitamins,
\* as tuples (id, vitamin_id, attempts, last_reminder).
get_active_reminders(user_id) ==
    LET today == Today(now)
        rows == {r \in active_reminders :
                   /\ r.user_id = user_id
                   /\ r.reminder_date = today
                   /\ r.vitamin_id \in 1..Len(vitamins)}
        tuple(r) == [id |-> r.id, vitamin_id |-> r.vitamin_id,
                     attempts |-> r.attempts,
                     last_reminder |-> convert_datetime(r.last_reminder)]
        sorted == ById(rows)
    IN  [i \in 1..Len(sorted) |-> tuple(sorted[i])]

\* update_reminder_attempt: UPDATE ... WHERE id = reminder_id.
update_reminder_attempt(reminder_id) ==
    {IF r.id = reminder_id
     THEN [r EXCEPT !.attempts = r.attempts + 1, !.last_reminder = now]
     ELSE r : r \in active_reminders}

\* Variant of delete_vitamin whose UPDATE has no user_id condition.
delete_vitamin_any_owner(vitamin_id, user_id) ==
    [vitamins |-> [i \in 1..Len(vitamins) |->
                     IF vitamins[i].id = vitamin_id
                     THEN [vitamins[i] EXCEPT !.is_active = FALSE]
                     ELSE vitamins[i]],
     result |-> TRUE]

\* delete_vitamin: UPDATE vitamins SET is_active = 0 WHERE id, user_id;
\* returns True whether or not a row matched.
delete_vitamin(vitamin_id, user_id) ==
    [vitamins |-> [i \in 1..Len(vitamins) |->
                     IF vitamins[i].id = vitamin_id /\ vitamins[i].user_id = user_id
                     THEN [vitamins[i] EXCEPT !.is_active = FALSE]
                     ELSE vitamins[i]],
     result |-> TRUE]

\* show_statistics: the number of the owner's log rows with status "taken".
statistics(user_id) ==
    Cardinality({k \in 1..Len(vitamin_logs) :
                    /\ vitamin_logs[k].user_id = user_id
                    /\ vitamin_logs[k].status = "taken"})

\* Variant of check_user_access that lets every user in.
check_user_access_open(user_id) == user_id \in Users

\* check_user_access
check_user_access(user_id) ==
    \E i \in 1..Len(ALLOWED_USERS) : ALLOWED_USERS[i] = user_id

\* How an awaited send_message ends: it returns, or it raises.
SendOutcomes == {"ok", "error"}

NoState == [step |-> "none", name |-> Word]
EvIdle == [pc |-> "idle", time |-> strftime(0), uidx |-> 0, rows |-> <<>>, idx |-> 0,
           date |-> 0]
EscIdle == [pc |-> "idle", uidx |-> 0, rows |-> <<>>, idx |-> 0,
            text |-> [attempt |-> 0, max_attempts |-> 0]]

Init ==
    /\ now = 0
    /\ vitamins = <<>>
    /\ vitamin_logs = <<>>
    /\ active_reminders = {}
    /\ reminder_seq = 0
    /\ user_states = [u \in Users |-> NoState]
    /\ settings = [u \in Users |-> "unset"]
    /\ jobs = <<>>
    /\ ev = EvIdle
    /\ esc = EscIdle
    /\ job_result = "none"
    /\ created = {}
    /\ fired = <<>>
    /\ delivery_error = "none"
    /\ issued = [id \in 1..MaxReminderRows |-> 0]
    /\ denied = 0
    /\ not_found = 0
    /\ events = 0

\* ---------------------------------------------------------------- clock
\* One minute passes.  A one-shot job fires at its due time, so the clock
\* does not pass a job that is due.
Tick ==
    /\ now < MaxTime
    /\ \A i \in 1..Len(jobs) : jobs[i].due > now
    /\ now' = now + 1
    /\ job_result' = "none"
    /\ fired' = <<>>
    /\ denied' = 0
    /\ not_found' = 0
    /\ UNCHANGED issued
    /\ delivery_error' = "none"
    /\ UNCHANGED <<vitamins, vitamin_logs, active_reminders, reminder_seq,
                   user_states, settings, jobs, ev, esc, created, events>>

\* ------------------------------------------------- send_vitamin_reminder
\* Variant of EvalScan whose loop over ALLOWED_USERS stops one user early.
RECURSIVE EvalScan_skip_last(_, _, _, _)
EvalScan_skip_last(uidx, rows, idx, current_time_str) ==
    IF idx <= Len(rows)
    THEN IF rows[idx].reminder_time = current_time_str
         THEN [found |-> TRUE, uidx |-> uidx, rows |-> rows, idx |-> idx]
         ELSE EvalScan_skip_last(uidx, rows, idx + 1, current_time_str)
    ELSE IF uidx + 1 < Len(ALLOWED_USERS)
         THEN EvalScan_skip_last(uidx + 1,
                                 get_user_vitamins(ALLOWED_USERS[uidx + 1]),
                                 1, current_time_str)
         ELSE [found |-> FALSE, uidx |-> 0, rows |-> <<>>, idx |-> 0]

\* The position of the next row whose reminder_time equals the pass's
\* current_time_str, scanning the rest of the current user's rows and then
\* the following users (whose rows are read when the loop reaches them).
RECURSIVE EvalScan(_, _, _, _)
EvalScan(uidx, rows, idx, current_time_str) ==
    IF idx <= Len(rows)
    THEN IF rows[idx].reminder_time = current_time_str
         THEN [found |-> TRUE, uidx |-> uidx, rows |-> rows, idx |-> idx]
         ELSE EvalScan(uidx, rows, idx + 1, current_time_str)
    ELSE IF uidx < Len(ALLOWED_USERS)
         THEN EvalScan(uidx + 1, get_user_vitamins(ALLOWED_USERS[uidx + 1]),
                       1, current_time_str)
         ELSE [found |-> FALSE, uidx |-> 0, rows |-> <<>>, idx |-> 0]

\* The loop body for the row at pos: add_active_reminder, its result
\* ignored, then send_message, on which the coroutine is suspended.  When
\* no row is left the job returns.
EvalBody(pos, current_time_str) ==
    IF pos.found
    THEN LET v == pos.rows[pos.idx]
             user_id == ALLOWED_USERS[pos.uidx]
             res == add_active_reminder(v.id, user_id)
         IN  /\ res.seq <= MaxReminderRows
             /\ active_reminders' = res.reminders
             /\ reminder_seq' = res.seq
             /\ created' = created \cup
                  {[vitamin_id |-> r.vitamin_id, user_id |-> r.user_id, t |-> now] :
                     r \in res.reminders \ active_reminders}
             /\ ev' = [pc |-> "send", time |-> current_time_str,
                       uidx |-> pos.uidx, rows |-> pos.rows, idx |-> pos.idx,
                       date |-> IF ev.pc = "idle" THEN Today(now) ELSE ev.date]
             /\ job_result' = "none"
    ELSE /\ ev' = EvIdle
         /\ job_result' = "none"
         /\ UNCHANGED <<active_reminders, reminder_seq, created>>

\* The job starts: it reads the clock once and runs to its first send or
\* to its end.  The job queue does not start a second instance of a job
\* that is still running.
send_vitamin_reminder ==
    /\ ev.pc = "idle"
    /\ LET current_time_str == strftime(now)
       IN  EvalBody(EvalScan(0, <<>>, 1, current_time_str), current_time_str)
    /\ fired' = <<>>
    /\ denied' = 0
    /\ not_found' = 0
    /\ UNCHANGED issued
    /\ delivery_error' = "none"
    /\ UNCHANGED <<now, vitamins, vitamin_logs, user_states, settings, jobs,
                   esc, events>>

\* Variant of send_vitamin_reminder_resume without the try/except around
\* send_message: an exception of the send ends the job.
send_vitamin_reminder_resume_abort ==
    /\ ev.pc = "send"
    /\ \E outcome \in SendOutcomes :
          /\ delivery_error' = IF outcome = "error" THEN "first" ELSE "none"
          /\ IF outcome = "error"
             THEN /\ ev' = EvIdle
                  /\ job_result' = "none"
                  /\ UNCHANGED <<active_reminders, reminder_seq, created>>
             ELSE EvalBody(EvalScan(ev.uidx, ev.rows, ev.idx + 1, ev.time), ev.time)
    /\ fired' = <<>>
    /\ denied' = 0
    /\ not_found' = 0
    /\ UNCHANGED issued
    /\ UNCHANGED <<now, vitamins, vitamin_logs, user_states, settings, jobs,
                   esc, events>>

\* send_message returns or raises; the exception is caught and logged, and
\* in both cases the loop goes on to the next matching row.
send_vitamin_reminder_resume ==
    /\ ev.pc = "send"
    /\ \E outcome \in SendOutcomes :
          delivery_error' = IF outcome = "error" THEN "first" ELSE "none"
    /\ EvalBody(EvalScan(ev.uidx, ev.rows, ev.idx + 1, ev.time), ev.time)
    /\ fired' = <<>>
    /\ denied' = 0
    /\ not_found' = 0
    /\ UNCHANGED issued
    /\ UNCHANGED <<now, vitamins, vitamin_logs, user_states, settings, jobs,
                   esc, events>>

\* ------------------------------------------------- send_repeat_reminders
\* The owner's escalation preference: the toggled value, else the default.
RepeatEnabled(user_id) ==
    IF settings[user_id] # "unset"
    THEN settings[user_id] = "on"
    ELSE ENABLE_REPEAT_REMINDERS

\* datetime.fromisoformat(x): the datetime a str denotes; TypeError for an
\* argument that is not a str.
fromisoformat(x) ==
    IF x.type = "str" THEN [ok |-> TRUE, val |-> x.val]
                      ELSE [ok |-> FALSE, val |-> 0]

\* The test of line 575 on a row read by get_active_reminders.
DueForRepeat(last_time, attempts) ==
    /\ now - last_time >= REPEAT_REMINDER_INTERVAL
    /\ attempts < MAX_REMINDER_ATTEMPTS

\* The numbers REPEAT_REMINDER_TEXT is formatted with for a row that was
\* read with `attempts` attempts.
repeat_text(row) ==
    [attempt |-> row.attempts + 1, max_attempts |-> MAX_REMINDER_ATTEMPTS]

\* Variant of EscScan whose loop body has neither the conversion nor the
\* test of line 575: every listed row is bumped and re-notified.
RECURSIVE EscScan_untested(_, _, _)
EscScan_untested(uidx, rows, idx) ==
    IF idx <= Len(rows)
    THEN [res |-> "send", uidx |-> uidx, rows |-> rows, idx |-> idx]
    ELSE IF uidx < Len(ALLOWED_USERS)
         THEN IF RepeatEnabled(ALLOWED_USERS[uidx + 1])
              THEN EscScan_untested(uidx + 1,
                                    get_active_reminders(ALLOWED_USERS[uidx + 1]), 1)
              ELSE EscScan_untested(uidx + 1, <<>>, 1)
         ELSE [res |-> "done", uidx |-> 0, rows |-> <<>>, idx |-> 0]

\* What the loop does next from a position: "TypeError" when fromisoformat
\* raises on a row, "send" at the next row that passes the test, "done"
\* when the users are exhausted.
RECURSIVE EscScan(_, _, _)
EscScan(uidx, rows, idx) ==
    IF idx <= Len(rows)
    THEN LET last_time == fromisoformat(rows[idx].last_reminder)
         IN  IF ~last_time.ok
             THEN [res |-> "TypeError", uidx |-> uidx, rows |-> rows, idx |-> idx]
             ELSE IF DueForRepeat(last_time.val, rows[idx].attempts)
                  THEN [res |-> "send", uidx |-> uidx, rows |-> rows, idx |-> idx]
                  ELSE EscScan(uidx, rows, idx + 1)
    ELSE IF uidx < Len(ALLOWED_USERS)
         THEN IF RepeatEnabled(ALLOWED_USERS[uidx + 1])
              THEN EscScan(uidx + 1, get_active_reminders(ALLOWED_USERS[uidx + 1]), 1)
              ELSE EscScan(uidx + 1, <<>>, 1)
         ELSE [res |-> "done", uidx |-> 0, rows |-> <<>>, idx |-> 0]

\* The job runs from its start, or from the send it was suspended on, to
\* its next send, to its end, or to the exception that ends it.  main()
\* schedules the job only if ENABLE_REPEAT_REMINDERS.
send_repeat_reminders ==
    /\ ENABLE_REPEAT_REMINDERS
    /\ LET pos == IF esc.pc = "idle" THEN EscScan(0, <<>>, 1)
                  ELSE EscScan(esc.uidx, esc.rows, esc.idx + 1)
       IN  IF pos.res = "send"
           THEN LET r == pos.rows[pos.idx]
                IN  /\ active_reminders' = update_reminder_attempt(r.id)
                    /\ issued' = [issued EXCEPT ![r.id] = @ + 1]
                    /\ esc' = [pc |-> "send", uidx |-> pos.uidx,
                               rows |-> pos.rows, idx |-> pos.idx,
                               text |-> repeat_text(r)]
                    /\ job_result' = "none"
           ELSE /\ esc' = EscIdle
                /\ job_result' = IF pos.res = "TypeError"
                                 THEN "TypeError"
                                 ELSE "returned"
                /\ UNCHANGED <<active_reminders, issued>>
    /\ \E outcome \in SendOutcomes :
          /\ esc.pc = "idle" => outcome = "ok"
          /\ delivery_error' = IF outcome = "error" THEN "repeat" ELSE "none"
    /\ fired' = <<>>
    /\ denied' = 0
    /\ not_found' = 0
    /\ UNCHANGED <<now, vitamins, vitamin_logs, reminder_seq, user_states,
                   settings, jobs, ev, created, events>>

\* --------------------------------------------------------- storage failure
\* An Evaluator pass in which get_user_vitamins raises for the j-th allowed
\* user.  get_user_vitamins has no try/except and neither has the loop of
\* send_vitamin_reminder, so the exception ends the job.  The loop reaches
\* user j only if nothing before it matches (a match suspends the pass on a
\* send first).
send_vitamin_reminder_list_fails(j) ==
    LET started == ev.pc = "idle"
        current_time_str == IF started THEN strftime(now) ELSE ev.time
        pos == IF started THEN EvalScan(0, <<>>, 1, current_time_str)
               ELSE EvalScan(ev.uidx, ev.rows, ev.idx + 1, current_time_str)
    IN  /\ j > (IF started THEN 0 ELSE ev.uidx)
        /\ ~pos.found \/ pos.uidx >= j
        /\ ev' = EvIdle
        /\ job_result' = "OperationalError"
        /\ denied' = 0
        /\ not_found' = 0
        /\ UNCHANGED issued
        /\ fired' = <<>>
        /\ delivery_error' = "none"
        /\ UNCHANGED <<now, vitamins, vitamin_logs, active_reminders,
                       reminder_seq, user_states, settings, jobs, esc, created,
                       events>>

\* An Escalation pass in which get_active_reminders raises for the j-th
\* allowed user, whose escalation is enabled.  Neither get_active_reminders
\* nor the loop of send_repeat_reminders catches it: the job ends.
send_repeat_reminders_list_fails(j) ==
    LET started == esc.pc = "idle"
        pos == IF started THEN EscScan(0, <<>>, 1)
               ELSE EscScan(esc.uidx, esc.rows, esc.idx + 1)
    IN  /\ ENABLE_REPEAT_REMINDERS
        /\ j > (IF started THEN 0 ELSE esc.uidx)
        /\ RepeatEnabled(ALLOWED_USERS[j])
        /\ pos.res = "done" \/ pos.uidx >= j
        /\ esc' = EscIdle
        /\ job_result' = "OperationalError"
        /\ denied' = 0
        /\ not_found' = 0
        /\ UNCHANGED issued
        /\ fired' = <<>>
        /\ delivery_error' = "none"
        /\ UNCHANGED <<now, vitamins, vitamin_logs, active_reminders,
                       reminder_seq, user_states, settings, jobs, ev, created,
                       events>>

\* ---------------------------------------------------------- handle_message
\* add_vitamin_start
add_vitamin_start(user_id) ==
    /\ user_states' = [user_states EXCEPT ![user_id] = [step |-> "name", name |-> Word]]
    /\ UNCHANGED <<vitamins, settings>>

\* show_settings: creates the owner's entry with the default when missing.
show_settings(user_id) ==
    /\ settings' = [settings EXCEPT ![user_id] =
                      IF settings[user_id] = "unset"
                      THEN (IF ENABLE_REPEAT_REMINDERS THEN "on" ELSE "off")
                      ELSE settings[user_id]]
    /\ UNCHANGED <<vitamins, user_states>>

\* handle_user_input: the two steps of the add-item wizard.
handle_user_input(user_id, text) ==
    IF user_states[user_id].step = "name"
    THEN /\ user_states' = [user_states EXCEPT ![user_id] =
                              [step |-> "time", name |-> text]]
         /\ UNCHANGED <<vitamins, settings>>
    ELSE IF strptime(text) >= 0
         THEN /\ Len(vitamins) < MaxVitamins
              /\ vitamins' = add_vitamin(user_id, user_states[user_id].name, text)
              /\ user_states' = [user_states EXCEPT ![user_id] = NoState]
              /\ UNCHANGED settings
         ELSE UNCHANGED <<vitamins, user_states, settings>>

\* handle_message: the access check, then the menu buttons, then the
\* wizard input of a user who has a wizard state.  show_vitamins and
\* show_statistics only read.
handle_message(user_id, text) ==
    /\ events < MaxEvents
    /\ events' = events + 1
    /\ IF ~check_user_access(user_id)
       THEN UNCHANGED <<vitamins, user_states, settings>>
       ELSE IF text = BtnVitamins \/ text = BtnStats
            THEN UNCHANGED <<vitamins, user_states, settings>>
            ELSE IF text = BtnAdd
                 THEN add_vitamin_start(user_id)
                 ELSE IF text = BtnSettings
                      THEN show_settings(user_id)
                      ELSE IF user_states[user_id].step # "none"
                           THEN handle_user_input(user_id, text)
                           ELSE UNCHANGED <<vitamins, user_states, settings>>
    /\ denied' = IF check_user_access(user_id) THEN 0 ELSE user_id
    /\ not_found' = 0
    /\ UNCHANGED issued
    /\ job_result' = "none"
    /\ fired' = <<>>
    /\ delivery_error' = "none"
    /\ UNCHANGED <<now, vitamin_logs, active_reminders, reminder_seq, jobs, ev,
                   esc, created>>

\* --------------------------------------------------------- handle_callback
\* The callback data of the inline buttons.
Callback(action, delay, vitamin_id) ==
    [action |-> action, delay |-> delay, vitamin_id |-> vitamin_id]
VitaminIds == 1..MaxVitamins
\* The buttons under the reminders and the item list.
CoreCallbacks ==
    {Callback("taken", 0, v) : v \in VitaminIds}
    \cup {Callback("delete", 0, v) : v \in VitaminIds}
    \cup {Callback("postpone", d, v) : d \in PostponeDelays, v \in VitaminIds}
Callbacks == CoreCallbacks \cup {Callback("toggle_repeat_reminders", 0, 0)}

\* "taken_<id>": log_vitamin_intake(vitamin_id, user_id, "taken").
callback_taken(user_id, vitamin_id) ==
    LET res == log_vitamin_intake(vitamin_id, user_id, "taken")
    IN  /\ Len(vitamin_logs) < MaxLogs
        /\ vitamin_logs' = res.logs
        /\ active_reminders' = res.reminders
        /\ UNCHANGED <<vitamins, settings, jobs>>

\* Variant of the delete branch that also cancels the pending postponed
\* reminders of the item.
callback_delete_cancel(user_id, vitamin_id) ==
    /\ vitamins' = delete_vitamin(vitamin_id, user_id).vitamins
    /\ jobs' = SelectSeq(jobs, LAMBDA j : ~(j.vitamin_id = vitamin_id
                                            /\ j.user_id = user_id))
    /\ UNCHANGED <<vitamin_logs, active_reminders, settings>>

\* "delete_<id>": delete_vitamin(vitamin_id, user_id).
callback_delete(user_id, vitamin_id) ==
    /\ vitamins' = delete_vitamin(vitamin_id, user_id).vitamins
    /\ UNCHANGED <<vitamin_logs, active_reminders, settings, jobs>>

\* Variant of the postpone branch that also restarts the escalation clock
\* of the item's reminder row of today.
callback_postpone_refresh(user_id, delay, vitamin_id) ==
    LET vits == get_user_vitamins(user_id)
    IN  IF \E i \in 1..Len(vits) : vits[i].id = vitamin_id
        THEN /\ Len(jobs) < MaxJobs
             /\ jobs' = Append(jobs, [user_id |-> user_id,
                                      vitamin_id |-> vitamin_id,
                                      due |-> now + delay])
             /\ active_reminders' =
                  {IF /\ r.vitamin_id = vitamin_id
                      /\ r.user_id = user_id
                      /\ r.reminder_date = Today(now)
                   THEN [r EXCEPT !.last_reminder = now]
                   ELSE r : r \in active_reminders}
             /\ UNCHANGED <<vitamins, vitamin_logs, settings>>
        ELSE UNCHANGED <<vitamins, vitamin_logs, active_reminders, settings, jobs>>

\* Variant of the postpone branch without the lookup of the item among the
\* owner's active items.
callback_postpone_any_item(user_id, delay, vitamin_id) ==
    /\ Len(jobs) < MaxJobs
    /\ jobs' = Append(jobs, [user_id |-> user_id,
                             vitamin_id |-> vitamin_id,
                             due |-> now + delay])
    /\ UNCHANGED <<vitamins, vitamin_logs, active_reminders, settings>>

\* "postpone_<delay>_<id>": looks the item up among the owner's active
\* items and queues one run_once job delay minutes ahead; an id that is
\* not there is answered with the "item not found" text.
callback_postpone(user_id, delay, vitamin_id) ==
    LET vits == get_user_vitamins(user_id)
    IN  IF \E i \in 1..Len(vits) : vits[i].id = vitamin_id
        THEN /\ Len(jobs) < MaxJobs
             /\ jobs' = Append(jobs, [user_id |-> user_id,
                                      vitamin_id |-> vitamin_id,
                                      due |-> now + delay])
             /\ UNCHANGED <<vitamins, vitamin_logs, active_reminders, settings>>
        ELSE UNCHANGED <<vitamins, vitamin_logs, active_reminders, settings, jobs>>

\* "toggle_repeat_reminders": flips the owner's entry, created with the
\* default when missing.
callback_toggle(user_id) ==
    LET current == IF settings[user_id] = "unset"
                   THEN ENABLE_REPEAT_REMINDERS
                   ELSE settings[user_id] = "on"
    IN  /\ settings' = [settings EXCEPT ![user_id] =
                          IF current THEN "off" ELSE "on"]
        /\ UNCHANGED <<vitamins, vitamin_logs, active_reminders, jobs>>

handle_callback(user_id, data) ==
    /\ events < MaxEvents
    /\ events' = events + 1
    /\ IF ~check_user_access(user_id)
       THEN UNCHANGED <<vitamins, vitamin_logs, active_reminders, settings, jobs>>
       ELSE IF data.action = "taken"
            THEN callback_taken(user_id, data.vitamin_id)
            ELSE IF data.action = "delete"
                 THEN callback_delete(user_id, data.vitamin_id)
                 ELSE IF data.action = "postpone"
                      THEN callback_postpone(user_id, data.delay, data.vitamin_id)
                      ELSE callback_toggle(user_id)
    /\ denied' = IF check_user_access(user_id) THEN 0 ELSE user_id
    /\ not_found' = IF /\ check_user_access(user_id)
                        /\ data.action = "postpone"
                        /\ \A i \in 1..Len(get_user_vitamins(user_id)) :
                              get_user_vitamins(user_id)[i].id # data.vitamin_id
                     THEN user_id ELSE 0
    /\ UNCHANGED issued
    /\ job_result' = "none"
    /\ fired' = <<>>
    /\ delivery_error' = "none"
    /\ UNCHANGED <<now, reminder_seq, user_states, ev, esc, created>>

\* ------------------------------------------------ send_postponed_reminder
\* A queued one-shot job fires at its due time, leaves the queue and sends
\* the reminder text from its job data.
send_postponed_reminder(i) ==
    /\ jobs[i].due <= now
    /\ jobs' = [k \in 1..(Len(jobs) - 1) |-> IF k < i THEN jobs[k] ELSE jobs[k + 1]]
    /\ fired' = <<jobs[i]>>
    /\ denied' = 0
    /\ not_found' = 0
    /\ UNCHANGED issued
    /\ job_result' = "none"
    /\ delivery_error' = "none"
    /\ UNCHANGED <<now, vitamins, vitamin_logs, active_reminders, reminder_seq,
                   user_states, settings, ev, esc, created, events>>

\* A user sends one of `texts`; an item is named with a plain word.
UserMessage(texts) ==
    \E u \in Users, text \in texts :
        /\ user_states[u].step = "name" => text = Word
        /\ handle_message(u, text)

\* A user presses one of the buttons `callbacks`.
ButtonPress(callbacks) ==
    \E u \in Users, data \in callbacks : handle_callback(u, data)

\* A postponed delivery fires.
PostponedFire == \E i \in 1..Len(jobs) : send_postponed_reminder(i)

\* The bot with every owner's escalation preference left at the default:
\* the periodic jobs, the item wizard, the item list and the reminder
\* buttons.
Next ==
    \/ Tick
    \/ send_vitamin_reminder
    \/ send_vitamin_reminder_resume
    \/ send_repeat_reminders
    \/ UserMessage(CoreTexts)
    \/ ButtonPress(CoreCallbacks)
    \/ PostponedFire

Spec == Init /\ [][Next]_vars

\* The bot with every message text and every button, the settings screen
\* and the escalation toggle included.
FullNext ==
    \/ Tick
    \/ send_vitamin_reminder
    \/ send_vitamin_reminder_resume
    \/ send_repeat_reminders
    \/ UserMessage(Texts)
    \/ ButtonPress(Callbacks)
    \/ PostponedFire

FullSpec == Init /\ [][FullNext]_vars

\* A SELECT of a periodic job fails.
EvaluatorListFails ==
    \E j \in 1..Len(ALLOWED_USERS) : send_vitamin_reminder_list_fails(j)
EscalationListFails ==
    \E j \in 1..Len(ALLOWED_USERS) : send_repeat_reminders_list_fails(j)

\* The bot of Spec on a database whose SELECTs can fail.
FaultNext ==
    \/ Next
    \/ EvaluatorListFails
    \/ EscalationListFails

FaultSpec == Init /\ [][FaultNext]_vars

\* The bot while the process keeps running: the clock advances and the job
\* queue runs every one-shot job when it is due.
LiveSpec == Spec /\ WF_vars(Tick) /\ WF_vars(PostponedFire)

\* The running bot with the two run_repeating jobs scheduled fairly: a job
\* that is to start or to resume eventually does.
FairSpec ==
    /\ LiveSpec
    /\ WF_vars(send_vitamin_reminder)
    /\ WF_vars(send_vitamin_reminder_resume)
    /\ WF_vars(send_repeat_reminders)

\* =================================================================== claims
\* The reminder rows of S for (vitamin_id, user_id, date).
RowsFor(S, vitamin_id, user_id, d) ==
    {r \in S : /\ r.vitamin_id = vitamin_id
               /\ r.user_id = user_id
               /\ r.reminder_date = d}

AllowedUsers == {ALLOWED_USERS[i] : i \in 1..Len(ALLOWED_USERS)}

\* A step in which the Evaluator hands a first notification to send_message.
FirstNotificationIssued == ev' # ev /\ ev'.pc = "send"
\* A step in which the Escalation Engine hands a repeat notification over.
RepeatNotificationIssued == esc' # esc /\ esc'.pc = "send"

\* C1: in every reachable state the table holds at most one reminder row
\* for each (item, owner, calendar date).
ThmC1_OneRowPerItemOwnerDate ==
    \A r1, r2 \in active_reminders :
        (/\ r1.vitamin_id = r2.vitamin_id
         /\ r1.user_id = r2.user_id
         /\ r1.reminder_date = r2.reminder_date) => r1 = r2

\* C1 witness: one item has a row for each of two dates, so the Evaluator
\* has raised it again after the day changed.
WitnessC1_RowsOnTwoDates ==
    \E r1, r2 \in active_reminders :
        /\ r1.vitamin_id = r2.vitamin_id
        /\ r1.user_id = r2.user_id
        /\ r1.reminder_date # r2.reminder_date

\* C2 (as claimed): the Evaluator issues a first notification for an item
\* only in a step in which its add_active_reminder call inserted the row of
\* (item, owner, today).
CexC2_FirstNotificationOnlyWhenCreated ==
    [][FirstNotificationIssued =>
         LET v == ev'.rows[ev'.idx].id
             u == ALLOWED_USERS[ev'.uidx]
         IN  /\ RowsFor(active_reminders, v, u, Today(now)) = {}
             /\ RowsFor(active_reminders', v, u, Today(now)) # {}]_vars

\* C3: a "taken" acknowledgment by an allowed user appends exactly one log
\* row (item, owner, "taken") and in the same step leaves no reminder row
\* for (item, owner, today); nothing else changes, whether or not a row
\* existed.
ThmC3_AcknowledgeLogsAndClears ==
    [][\A u \in AllowedUsers, v \in VitaminIds :
         handle_callback(u, Callback("taken", 0, v)) =>
           /\ vitamin_logs' = vitamin_logs \o
                <<[vitamin_id |-> v, user_id |-> u, status |-> "taken"]>>
           /\ RowsFor(active_reminders', v, u, Today(now)) = {}
           /\ active_reminders' =
                active_reminders \ RowsFor(active_reminders, v, u, Today(now))
           /\ UNCHANGED <<now, vitamins, reminder_seq, user_states, settings,
                          jobs, ev, esc>>]_vars

\* C3 witness: an item was raised, then acknowledged twice: two equal log
\* rows, the second written when no reminder row was left.
WitnessC3_AcknowledgedTwice ==
    /\ Len(vitamin_logs) = 2
    /\ vitamin_logs[1] = vitamin_logs[2]
    /\ \E c \in created :
          /\ c.vitamin_id = vitamin_logs[1].vitamin_id
          /\ c.user_id = vitamin_logs[1].user_id
          /\ Today(c.t) = Today(now)
    /\ RowsFor(active_reminders, vitamin_logs[1].vitamin_id,
               vitamin_logs[1].user_id, Today(now)) = {}

ActiveIdsOf(user_id) ==
    {i \in 1..Len(vitamins) :
        vitamins[i].user_id = user_id /\ vitamins[i].is_active}

\* A step of the Evaluator job.
EvaluatorStep == send_vitamin_reminder \/ send_vitamin_reminder_resume

\* C6: in a step of an Evaluator pass (a) the item that is notified is one
\* whose reminder_time equals the pass's current minute; if it has no row
\* for today, exactly one row (attempts 0, last_reminder now, date today) is
\* inserted, and nothing else changes in the table; (b) no listed item with
\* that reminder_time is passed over, in the current owner's list or in
\* the lists of the owners the pass moves on to; (c) a step that notifies
\* nobody inserts nothing.
ThmC6_MatchingItemsRaisedOnce ==
    [][EvaluatorStep =>
         LET started == ev.pc = "idle"
             minute  == IF started THEN Text("time", MinuteOfDay(now), TRUE)
                                   ELSE ev.time
             prevU   == IF started THEN 0 ELSE ev.uidx
             notifies == ev'.pc = "send"
             endU    == IF notifies THEN ev'.uidx ELSE Len(ALLOWED_USERS) + 1
         IN  /\ notifies =>
                  LET row == ev'.rows[ev'.idx]
                      u   == ALLOWED_USERS[ev'.uidx]
                  IN  /\ ev' # ev
                      /\ ev'.time = minute
                      /\ row.reminder_time = minute
                      /\ IF RowsFor(active_reminders, row.id, u, Today(now)) = {}
                         THEN \E r \in active_reminders' :
                                 /\ r \notin active_reminders
                                 /\ active_reminders' = active_reminders \cup {r}
                                 /\ r.vitamin_id = row.id
                                 /\ r.user_id = u
                                 /\ r.reminder_date = Today(now)
                                 /\ r.last_reminder = now
                                 /\ r.attempts = 0
                         ELSE active_reminders' = active_reminders
                      /\ IF endU = prevU
                         THEN /\ ev'.rows = ev.rows
                              /\ \A k \in (ev.idx + 1)..(ev'.idx - 1) :
                                    ev.rows[k].reminder_time # minute
                         ELSE /\ Len(ev'.rows) = Cardinality(ActiveIdsOf(u))
                              /\ \A k \in 1..Len(ev'.rows) :
                                    /\ ev'.rows[k].id \in ActiveIdsOf(u)
                                    /\ ev'.rows[k] = vitamins[ev'.rows[k].id]
                              /\ \A k \in 1..(ev'.idx - 1) :
                                    ev'.rows[k].reminder_time # minute
             /\ (~started /\ endU # prevU) =>
                  \A k \in (ev.idx + 1)..Len(ev.rows) :
                     ev.rows[k].reminder_time # minute
             /\ \A j \in (prevU + 1)..(endU - 1) :
                  \A i \in ActiveIdsOf(ALLOWED_USERS[j]) :
                     vitamins[i].reminder_time # minute
             /\ ~notifies => active_reminders' = active_reminders]_vars

\* C6 witness: the pass has reached the second owner and is sending the
\* first notification for an item whose row it has just inserted, while
\* another active item with a different reminder_time has no row.
WitnessC6_RaisedAndSkipped ==
    /\ ev.pc = "send"
    /\ ev.uidx = 2
    /\ \E r \in active_reminders :
          /\ r.id = reminder_seq
          /\ r.vitamin_id = ev.rows[ev.idx].id
          /\ r.last_reminder = now
          /\ r.attempts = 0
    /\ \E i \in 1..Len(vitamins) :
          /\ vitamins[i].is_active
          /\ vitamins[i].reminder_time # ev.time
          /\ \A r \in active_reminders : r.vitamin_id # i

\* C7 (as claimed): a reminder row is never inserted for an item for which
\* a row was already inserted earlier in the same minute (hence on the same
\* date), whatever happened in between.
CexC7_NoSecondRowInSameMinute ==
    [][\A r \in active_reminders' \ active_reminders :
         ~\E c \in created :
             /\ c.vitamin_id = r.vitamin_id
             /\ c.user_id = r.user_id
             /\ c.t = now]_vars

\* The rows an Escalation pass that starts now is to escalate: today's rows
\* of allowed owners with escalation enabled, last notified at least the
\* interval ago, below the cap.
RowsToEscalate ==
    {r \in active_reminders :
        /\ r.user_id \in AllowedUsers
        /\ RepeatEnabled(r.user_id)
        /\ r.vitamin_id \in 1..Len(vitamins)
        /\ r.reminder_date = Today(now)
        /\ now - r.last_reminder >= REPEAT_REMINDER_INTERVAL
        /\ r.attempts < MAX_REMINDER_ATTEMPTS}

\* C8 (as claimed): an Escalation pass that starts while there are rows to
\* escalate raises the attempts of one of them by 1, sets its last_reminder
\* to now and issues the repeat notification for it, with the attempt
\* number of the row after the bump and the cap MAX_REMINDER_ATTEMPTS.
CexC8_EscalationBumpsAndNotifies ==
    [][(send_repeat_reminders /\ esc.pc = "idle" /\ RowsToEscalate # {}) =>
         \E r \in RowsToEscalate :
            /\ active_reminders' = (active_reminders \ {r}) \cup
                 {[r EXCEPT !.attempts = r.attempts + 1, !.last_reminder = now]}
            /\ esc'.pc = "send"
            /\ esc'.rows[esc'.idx].id = r.id
            /\ esc'.text = [attempt |-> r.attempts + 1,
                            max_attempts |-> MAX_REMINDER_ATTEMPTS]]_vars

\* The item is an active item of the owner.
ActiveItemOf(user_id, vitamin_id) == vitamin_id \in ActiveIdsOf(user_id)

\* C10: a postpone of an active item of the requesting owner queues exactly
\* one job, due the requested delay from now, and changes no reminder row;
\* the job fires at its due time, once, and changes no reminder row.
ThmC10_PostponeLeavesReminders ==
    [][/\ \A u \in AllowedUsers, d \in PostponeDelays, v \in VitaminIds :
            (handle_callback(u, Callback("postpone", d, v)) /\ ActiveItemOf(u, v)) =>
              /\ jobs' = jobs \o <<[user_id |-> u, vitamin_id |-> v, due |-> now + d]>>
              /\ active_reminders' = active_reminders
       /\ \A i \in 1..Len(jobs) :
            send_postponed_reminder(i) =>
              /\ jobs[i].due = now
              /\ Len(jobs') = Len(jobs) - 1
              /\ \A k \in 1..Len(jobs') : \E m \in (1..Len(jobs)) \ {i} : jobs'[k] = jobs[m]
              /\ active_reminders' = active_reminders]_vars

\* C10 witness: a postponed delivery is pending for an item whose reminder
\* row of today was notified before the postpone.
WitnessC10_PostponedWithRow ==
    \E i \in 1..Len(jobs) : \E r \in active_reminders :
        /\ r.vitamin_id = jobs[i].vitamin_id
        /\ r.user_id = jobs[i].user_id
        /\ r.reminder_date = Today(now)
        /\ r.last_reminder < now
        /\ jobs[i].due > now

\* The job data a postpone can queue with a due time the clock reaches.
DueJobData ==
    [user_id : AllowedUsers, vitamin_id : VitaminIds, due : 0..MaxTime]

\* The job data is in the queue of one-shot jobs.
Queued(j) == \E i \in 1..Len(jobs) : jobs[i] = j

\* C11: every queued postponed reminder is eventually sent, whatever the
\* user does to the item in between; a send takes exactly one entry with
\* that job data out of the queue, and an entry leaves the queue in no
\* other way, so each is sent once.
ThmC11_PostponedJobsFireOnce ==
    /\ [][/\ fired' # <<>> =>
               \E i \in 1..Len(jobs) :
                  /\ jobs[i] = fired'[1]
                  /\ jobs' = SubSeq(jobs, 1, i - 1) \o SubSeq(jobs, i + 1, Len(jobs))
            /\ jobs' # jobs =>
                  \/ fired' # <<>>
                  \/ \E j \in DueJobData \cup [user_id : AllowedUsers,
                                                 vitamin_id : VitaminIds,
                                                 due : (MaxTime + 1)..(MaxTime + 2)] :
                        jobs' = Append(jobs, j)]_vars
    /\ \A j \in DueJobData : Queued(j) ~> (fired = <<j>>)

\* C11 witness: a postponed reminder has just been sent for an item that
\* its owner deactivated and acknowledged while the job was pending or
\* before.
WitnessC11_FiredAfterDeleteAndTaken ==
    /\ fired # <<>>
    /\ ~vitamins[fired[1].vitamin_id].is_active
    /\ \E k \in 1..Len(vitamin_logs) :
          /\ vitamin_logs[k].vitamin_id = fired[1].vitamin_id
          /\ vitamin_logs[k].user_id = fired[1].user_id

\* C12: a delete of item v by owner u reports success, leaves v out of the
\* owner's list of active items, and changes no log row and no statistics;
\* when v is not an active item of u (no such row, a row of another owner,
\* or an item already deactivated) it changes nothing in the tables;
\* otherwise it clears the active flag of row v only.  No step makes an
\* inactive item active again, so v stays out of every later list.
ThmC12_DeactivateHidesAndKeepsLogs ==
    [][/\ \A u \in AllowedUsers, v \in VitaminIds :
            handle_callback(u, Callback("delete", 0, v)) =>
              /\ delete_vitamin(v, u).result
              /\ vitamin_logs' = vitamin_logs
              /\ \A w \in Users : statistics(w)' = statistics(w)
              /\ \A k \in 1..Len(get_user_vitamins(u)') :
                    get_user_vitamins(u)'[k].id # v
              /\ IF ActiveItemOf(u, v)
                 THEN vitamins' = [vitamins EXCEPT ![v].is_active = FALSE]
                 ELSE vitamins' = vitamins
              /\ UNCHANGED <<active_reminders, reminder_seq, user_states,
                             settings, jobs, now>>
       /\ \A i \in 1..Len(vitamins) :
            ~vitamins[i].is_active =>
               /\ i <= Len(vitamins')
               /\ ~vitamins'[i].is_active
               /\ \A u \in Users : \A k \in 1..Len(get_user_vitamins(u)') :
                     get_user_vitamins(u)'[k].id # i]_vars

\* C12 witness: an item that has a "taken" log row of its owner has been
\* deactivated; the owner's list is empty and the statistics still count
\* the log row.
WitnessC12_DeactivatedWithLog ==
    \E i \in 1..Len(vitamins) :
        /\ ~vitamins[i].is_active
        /\ get_user_vitamins(vitamins[i].user_id) = <<>>
        /\ statistics(vitamins[i].user_id) > 0
        /\ \E k \in 1..Len(vitamin_logs) :
              /\ vitamin_logs[k].vitamin_id = i
              /\ vitamin_logs[k].user_id = vitamins[i].user_id

\* Today's rows of owner u that the interval and cap conditions make
\* eligible for escalation now.
EligibleRows(u) ==
    {r \in active_reminders :
        /\ r.user_id = u
        /\ r.vitamin_id \in 1..Len(vitamins)
        /\ r.reminder_date = Today(now)
        /\ now - r.last_reminder >= REPEAT_REMINDER_INTERVAL
        /\ r.attempts < MAX_REMINDER_ATTEMPTS}

\* C13 (as claimed): an Escalation pass that starts changes no row of an
\* owner whose effective preference (the toggled value, else the global
\* default) is disabled, and when some owner with the preference enabled
\* has eligible rows it bumps a row of the first such owner and issues the
\* repeat notification for it.
CexC13_EscalatesExactlyEnabledOwners ==
    [][(send_repeat_reminders /\ esc.pc = "idle") =>
         /\ \A u \in AllowedUsers :
               ~RepeatEnabled(u) =>
                  {r \in active_reminders' : r.user_id = u} =
                  {r \in active_reminders : r.user_id = u}
         /\ \A i \in 1..Len(ALLOWED_USERS) :
               (/\ RepeatEnabled(ALLOWED_USERS[i])
                /\ EligibleRows(ALLOWED_USERS[i]) # {}
                /\ \A k \in 1..(i - 1) :
                      ~RepeatEnabled(ALLOWED_USERS[k])
                      \/ EligibleRows(ALLOWED_USERS[k]) = {}) =>
                  /\ esc'.pc = "send"
                  /\ esc'.uidx = i
                  /\ \E r \in EligibleRows(ALLOWED_USERS[i]) :
                        /\ esc'.rows[esc'.idx].id = r.id
                        /\ [r EXCEPT !.attempts = r.attempts + 1,
                                      !.last_reminder = now] \in active_reminders']_vars

\* The active items of the j-th allowed user whose reminder_time is minute.
MatchingItems(j, minute) ==
    {i \in ActiveIdsOf(ALLOWED_USERS[j]) : vitamins[i].reminder_time = minute}

\* C14: a step of a pass that handles a failed send goes on with the pass.
\* Evaluator: the failed send is not repeated (the position moves
\* forward), no later matching row of the current owner's list and no
\* matching active item of the owners passed on the way is left out, the
\* next matching item gets its row and its notification, and the pass ends
\* only when nothing that matches is left.  Escalation Engine: likewise the
\* position moves forward and no row of the current list that is due is
\* left out.
ThmC14_FailedSendDoesNotAbort ==
    [][/\ (send_vitamin_reminder_resume /\ delivery_error' = "first") =>
            LET minute == ev.time
                sends == ev'.pc = "send"
                endU == IF sends THEN ev'.uidx ELSE Len(ALLOWED_USERS) + 1
                endI == IF sends /\ ev'.uidx = ev.uidx
                        THEN ev'.idx ELSE Len(ev.rows) + 1
            IN  /\ sends => \/ ev'.uidx > ev.uidx
                            \/ ev'.uidx = ev.uidx /\ ev'.idx > ev.idx
                /\ \A k \in (ev.idx + 1)..(endI - 1) :
                      ev.rows[k].reminder_time # minute
                /\ \A j \in (ev.uidx + 1)..(endU - 1) :
                      MatchingItems(j, minute) = {}
                /\ sends =>
                      /\ ev'.time = minute
                      /\ ev'.rows[ev'.idx].reminder_time = minute
                      /\ ev'.uidx = ev.uidx => ev'.rows = ev.rows
                      /\ ev'.uidx > ev.uidx =>
                            /\ ev'.rows[ev'.idx].id \in MatchingItems(ev'.uidx, minute)
                            /\ \A i \in MatchingItems(ev'.uidx, minute) :
                                  i >= ev'.rows[ev'.idx].id
                      /\ RowsFor(active_reminders', ev'.rows[ev'.idx].id,
                                 ALLOWED_USERS[ev'.uidx], Today(now)) # {}
       /\ (send_repeat_reminders /\ delivery_error' = "repeat") =>
            LET sends == esc'.pc = "send"
                endI == IF sends /\ esc'.uidx = esc.uidx
                        THEN esc'.idx ELSE Len(esc.rows) + 1
            IN  /\ sends => \/ esc'.uidx > esc.uidx
                            \/ esc'.uidx = esc.uidx /\ esc'.idx > esc.idx
                /\ \A k \in (esc.idx + 1)..(endI - 1) :
                      ~(/\ now - esc.rows[k].last_reminder.val >= REPEAT_REMINDER_INTERVAL
                        /\ esc.rows[k].attempts < MAX_REMINDER_ATTEMPTS)]_vars

\* C14 witness: the first notification of the first owner's item failed,
\* and the pass has gone on to the second owner's matching item, whose row
\* it inserted and whose notification it is sending.
WitnessC14_NextOwnerAfterFailure ==
    /\ delivery_error = "first"
    /\ ev.pc = "send"
    /\ ev.uidx = 2
    /\ MatchingItems(1, ev.time) # {}
    /\ \E r \in active_reminders :
          /\ r.vitamin_id = ev.rows[ev.idx].id
          /\ r.user_id = ALLOWED_USERS[2]
          /\ r.last_reminder = now

\* C15: a message or a button press of a user outside ALLOWED_USERS is
\* answered with the "no access" text and changes no table, no queued job,
\* no wizard state and no preference; every reminder row a step inserts
\* belongs to an allowed user; and a first or repeat notification goes to
\* an allowed user for a row of that user.
ThmC15_StrangerChangesNothing ==
    [][/\ \A u \in Users \ AllowedUsers :
            (\/ \E text \in Texts : handle_message(u, text)
             \/ \E data \in Callbacks : handle_callback(u, data)) =>
               /\ denied' = u
               /\ UNCHANGED <<vitamins, vitamin_logs, active_reminders,
                              reminder_seq, jobs, user_states, settings>>
       /\ \A r \in active_reminders' \ active_reminders :
            r.user_id \in AllowedUsers
       /\ FirstNotificationIssued =>
            /\ ALLOWED_USERS[ev'.uidx] \in AllowedUsers
            /\ ev'.rows[ev'.idx].user_id = ALLOWED_USERS[ev'.uidx]
       /\ RepeatNotificationIssued =>
            /\ ALLOWED_USERS[esc'.uidx] \in AllowedUsers
            /\ \E r \in active_reminders :
                  /\ r.id = esc'.rows[esc'.idx].id
                  /\ r.user_id = ALLOWED_USERS[esc'.uidx]]_vars

\* C15 witness: a user outside ALLOWED_USERS has just been turned away
\* while an allowed owner is in the wizard and has an item with a reminder
\* row; the stranger has no wizard state and no preference.
WitnessC15_StrangerTurnedAway ==
    /\ denied \in Users \ AllowedUsers
    /\ user_states[denied] = NoState
    /\ settings[denied] = "unset"
    /\ active_reminders # {}
    /\ \E u \in AllowedUsers : user_states[u].step = "name"
    /\ \A i \in 1..Len(vitamins) : vitamins[i].user_id \in AllowedUsers

\* A text in the form HH:MM, two digits each, as the Evaluator's
\* strftime("%H:%M") writes the minute.
ValidHHMM(text) == text.kind = "time" /\ text.pad

\* The texts that handle_message hands to the wizard.
WizardTexts == Texts \ {BtnVitamins, BtnAdd, BtnStats, BtnSettings}

\* C16 (as claimed): a text the wizard receives at the time step that is
\* not a valid HH:MM creates no item and leaves the wizard state at the
\* time step with the name kept; a valid one creates the item with the
\* kept name and that time and clears the owner's wizard state; and no
\* other step creates an item.
CexC16_InvalidTimeCreatesNoItem ==
    [][/\ \A u \in AllowedUsers, text \in WizardTexts :
            (handle_message(u, text) /\ user_states[u].step = "time") =>
               IF ValidHHMM(text)
               THEN /\ vitamins' = Append(vitamins,
                         [id |-> Len(vitamins) + 1, user_id |-> u,
                          name |-> user_states[u].name,
                          reminder_time |-> text, is_active |-> TRUE])
                    /\ user_states' = [user_states EXCEPT ![u] = NoState]
               ELSE /\ vitamins' = vitamins
                    /\ user_states' = user_states
       /\ Len(vitamins') > Len(vitamins) =>
            \E u \in AllowedUsers :
               /\ user_states[u].step = "time"
               /\ user_states'[u] = NoState
               /\ ValidHHMM(vitamins'[Len(vitamins')].reminder_time)]_vars

\* C17 (as claimed): in the Evaluator step that calls add_active_reminder
\* for an item, the call inserts a row for (item, owner, today) only if
\* there is none, and its result is true exactly when it inserted one.
CexC17_UpsertResultTellsCreated ==
    [][(EvaluatorStep /\ ev'.pc = "send") =>
         LET v == ev'.rows[ev'.idx].id
             u == ALLOWED_USERS[ev'.uidx]
             existed == RowsFor(active_reminders, v, u, Today(now)) # {}
             inserted == active_reminders' # active_reminders
         IN  /\ inserted <=> ~existed
             /\ add_active_reminder(v, u).reminders = active_reminders'
             /\ add_active_reminder(v, u).result <=> inserted]_vars

\* C18 (as claimed): with escalation enabled for every owner (nobody has
\* toggled it off) and the periodic jobs scheduled fairly, every reminder
\* row that is raised is eventually acknowledged (its row is deleted) or
\* has reached MAX_REMINDER_ATTEMPTS escalation notifications.
CexC18_EscalatedUntilAckOrCap ==
    \A id \in 1..MaxReminderRows :
        (\E r \in active_reminders : r.id = id /\ RepeatEnabled(r.user_id)) ~>
        (\A r \in active_reminders :
            r.id = id => r.attempts >= MAX_REMINDER_ATTEMPTS)

\* C19 (as claimed): the date of a reminder row that an Evaluator pass
\* inserts is the date of the pass's one clock reading, the reading whose
\* minute the item's reminder_time was matched against.
CexC19_RowDateIsPassDate ==
    [][EvaluatorStep =>
         \A r \in active_reminders' \ active_reminders :
            /\ ev'.rows[ev'.idx].reminder_time = ev'.time
            /\ r.reminder_date = ev'.date]_vars

\* C20 (as claimed): a delete changes no reminder row, and an Escalation
\* pass that starts while the rows to escalate all belong to deactivated
\* items bumps one of them (attempts + 1, last_reminder now) and issues
\* the repeat notification for it.
CexC20_DeactivatedItemStillEscalated ==
    [][/\ \A u \in AllowedUsers, v \in VitaminIds :
            handle_callback(u, Callback("delete", 0, v)) =>
               active_reminders' = active_reminders
       /\ (/\ send_repeat_reminders
           /\ esc.pc = "idle"
           /\ RowsToEscalate # {}
           /\ \A r \in RowsToEscalate : ~vitamins[r.vitamin_id].is_active) =>
             \E r \in RowsToEscalate :
                /\ [r EXCEPT !.attempts = r.attempts + 1,
                              !.last_reminder = now] \in active_reminders'
                /\ esc'.pc = "send"
                /\ esc'.rows[esc'.idx].id = r.id]_vars

\* The reminder rows whose date is not the current date.
ExpiredRows == {r \in active_reminders : r.reminder_date # Today(now)}

\* C21: a reminder row whose date is not today is not among the rows
\* get_active_reminders returns, and no step changes or re-notifies it: it
\* stays in the table as it is.  A row's date is never later than today,
\* so an expired row stays expired.  An Evaluator step that raises an item
\* that has no row of today inserts a fresh row (attempts 0, date today),
\* whether or not an expired row of the item is in the table.
ThmC21_ExpiredRowsAreDead ==
    [][/\ \A u \in AllowedUsers :
            \A k \in 1..Len(get_active_reminders(u)) :
               \E r \in active_reminders :
                  /\ r.id = get_active_reminders(u)[k].id
                  /\ r.user_id = u
                  /\ r.reminder_date = Today(now)
       /\ \A r \in active_reminders : r.reminder_date <= Today(now)
       /\ \A r \in ExpiredRows : r \in active_reminders'
       /\ RepeatNotificationIssued =>
            \A r \in ExpiredRows : r.id # esc'.rows[esc'.idx].id
       /\ (EvaluatorStep /\ ev'.pc = "send") =>
            LET v == ev'.rows[ev'.idx].id
                u == ALLOWED_USERS[ev'.uidx]
            IN  RowsFor(active_reminders, v, u, Today(now)) = {} =>
                  \E r \in active_reminders' \ active_reminders :
                     /\ r.vitamin_id = v
                     /\ r.user_id = u
                     /\ r.reminder_date = Today(now)
                     /\ r.attempts = 0]_vars

\* C21 witness: an Escalation pass has just returned, without reaching a
\* row, although the table holds a row of an owner with escalation
\* enabled: the row is from yesterday and was not listed, and the item it
\* belongs to is still active.
WitnessC21_PassOverExpiredRow ==
    /\ job_result = "returned"
    /\ ExpiredRows # {}
    /\ \A r \in active_reminders :
          /\ r \in ExpiredRows
          /\ RepeatEnabled(r.user_id)
          /\ vitamins[r.vitamin_id].is_active
          /\ now - r.last_reminder >= REPEAT_REMINDER_INTERVAL

\* C22 (as claimed): a failure while listing the active items of one user
\* leaves the store unchanged and does not end the Evaluator pass: when a
\* later user has an item that matches the pass's minute, the pass goes on
\* to the first such user and raises the item.  Likewise a failure while
\* listing one owner's reminder rows does not end the Escalation pass: it
\* goes on to the later owners.
CexC22_ListFailureDoesNotAbort ==
    [][/\ \A j \in 1..Len(ALLOWED_USERS) :
            send_vitamin_reminder_list_fails(j) =>
               LET minute == IF ev.pc = "idle" THEN strftime(now) ELSE ev.time
               IN  /\ UNCHANGED <<vitamins, vitamin_logs>>
                   /\ \A k \in (j + 1)..Len(ALLOWED_USERS) :
                         (/\ MatchingItems(k, minute) # {}
                          /\ \A m \in (j + 1)..(k - 1) :
                                MatchingItems(m, minute) = {}) =>
                            /\ ev'.pc = "send"
                            /\ ev'.uidx = k
       /\ \A j \in 1..Len(ALLOWED_USERS) :
            send_repeat_reminders_list_fails(j) =>
               /\ UNCHANGED <<vitamins, vitamin_logs, active_reminders>>
               /\ \A k \in (j + 1)..Len(ALLOWED_USERS) :
                     (/\ RepeatEnabled(ALLOWED_USERS[k])
                      /\ get_active_reminders(ALLOWED_USERS[k]) # <<>>) =>
                        job_result' # "OperationalError"]_vars

OwnedBy(t, v) == SelectSeq(t, LAMBDA row : row.user_id = v)

\* C24: a message or a button press of allowed owner u, whatever text or
\* item id it carries, leaves every other owner's items, reminder rows,
\* escalation preference and wizard state as they are, and queues no
\* postponed notification addressed to another owner.
ThmC24_OwnerIsolation ==
    [][\A v \in Users :
         \/ /\ OwnedBy(vitamins', v) = OwnedBy(vitamins, v)
            /\ {r \in active_reminders' : r.user_id = v} =
               {r \in active_reminders : r.user_id = v}
            /\ settings'[v] = settings[v]
            /\ user_states'[v] = user_states[v]
            /\ OwnedBy(jobs', v) = OwnedBy(jobs, v)
         \/ ~ \E u \in AllowedUsers \ {v} :
                \/ \E text \in Texts : handle_message(u, text)
                \/ \E data \in Callbacks : handle_callback(u, data)]_vars

\* C24 witness: an owner has acknowledged and deleted, by its id, an item
\* of another owner: the log row is the presser's, and the other owner's
\* item is still active and still has its reminder row of today.
WitnessC24_ForeignItemUntouched ==
    \E k \in 1..Len(vitamin_logs) :
        LET i == vitamin_logs[k].vitamin_id
        IN  /\ i \in 1..Len(vitamins)
            /\ vitamins[i].user_id # vitamin_logs[k].user_id
            /\ vitamins[i].is_active
            /\ RowsFor(active_reminders, i, vitamins[i].user_id, Today(now)) # {}

\* C25: a postpone whose item id is not an active item of the requesting
\* owner (deactivated, unknown, or another owner's) is answered with "item
\* not found", queues no job and leaves the tables, the wizard states and
\* the preferences as they are; and every job that enters the queue names
\* an item that is, at that moment, an active item of the job's owner.
ThmC25_PostponeOfMissingItemIsNoOp ==
    [][/\ \A u \in AllowedUsers, d \in PostponeDelays, v \in VitaminIds :
            (handle_callback(u, Callback("postpone", d, v))
             /\ ~ActiveItemOf(u, v)) =>
               /\ not_found' = u
               /\ UNCHANGED <<vitamins, vitamin_logs, active_reminders,
                              reminder_seq, user_states, settings, jobs>>
       /\ Len(jobs') > Len(jobs) =>
            /\ Len(jobs') = Len(jobs) + 1
            /\ not_found' = 0
            /\ ActiveItemOf(jobs'[Len(jobs')].user_id,
                            jobs'[Len(jobs')].vitamin_id)]_vars

\* C25 witness: the last step answered "item not found" to an owner whose
\* only item is deactivated; nothing is queued.
WitnessC25_PostponeNotFound ==
    /\ not_found \in AllowedUsers
    /\ jobs = <<>>
    /\ ActiveIdsOf(not_found) = {}
    /\ \E i \in 1..Len(vitamins) :
          vitamins[i].user_id = not_found /\ ~vitamins[i].is_active

====
